---------------------------- MODULE Spec2Model ----------------------------
(***************************************************************************)
(* SalesIQ: the upload / analyse / cache controller (App), the analysis    *)
(* client (services/gemini) and the optional persistence collaborator.     *)
(*                                                                         *)
(* The sources hold three revisions of the controller and two of the       *)
(* analysis client.  A behaviour fixes the revision in Init:               *)
(*   rev = "v1"   src/unnamed/part_001:442-759  in-memory cache            *)
(*   rev = "v2"   src/unnamed/part_001:1-441    cache + recent sessions    *)
(*   rev = "v3"   src/App.tsx                   Supabase auth/storage/db   *)
(* v1 and v2 ("Gemini 2.5 Flash", five-field result) run with the client   *)
(* of src/services/gemini.ts, built when the module loads; v3 ("Gemini 3   *)
(* Flash", result.verdict) runs with the client of src/unnamed/part_002,   *)
(* built on first use.                                                     *)
(*                                                                         *)
(* A behaviour also fixes how its environment is explored: a long session  *)
(* (deep) of up to MaxOps user operations in which the storage upload      *)
(* succeeds and the provider answers with a complete object or rejects as  *)
(* rate-limited, or a short one of up to MaxOps - 1 operations with every  *)
(* outcome of every collaborator.                                          *)
(*                                                                         *)
(* One action is one run of an event handler, or of the continuation of an *)
(* async handler, between two suspension points (await).                   *)
(***************************************************************************)
EXTENDS Integers, Sequences, FiniteSets, TLC

(* ------------------------------ bounds -------------------------------- *)
\* distinct upload fingerprints (version-name-size-lastModified)
NumFiles == 2
\* user operations that start asynchronous work (file selections, history
\* selections, sign-outs) per behaviour
MaxOps == 3

Fingerprints == 1..NumFiles
Seqs == 1..MaxOps
Handles == 1..MaxOps

(* ------------------------------ values -------------------------------- *)
\* URLs: null, a blob handle of URL.createObjectURL, a storage public URL
NoUrl == [k |-> "none", id |-> 0]
Blob(h) == [k |-> "blob", id |-> h]
Pub(s) == [k |-> "pub", id |-> s]

\* AnalysisResult as parsed: the fields present; null is NoData
Fields == {"transcript", "sentiment", "coaching", "summary", "topics"}
NoData == [of |-> << >>, fields |-> {}]
Result(key, fs) == [of |-> key, fields |-> fs]

\* Messages are sequences of words, so that String.includes is computed.
NoMsg == << >>
Includes(msg, tok) == \E i \in DOMAIN msg : msg[i] = tok


\* user-facing sentences (one word each) and the provider's raw error texts
MsgPlayer == <<"Failed to initialize audio player. Your browser may not support this file type.">>
MsgProcess == <<"Unable to process the audio file. It might be corrupted or in an unsupported format.">>
MsgFormat == <<"The audio format is not supported by the AI model.">>
MsgTooLarge == <<"The audio file is too large to be processed.">>
MsgRate == <<"Too many requests. Please wait a moment and try again.">>
MsgBlocked == <<"Analysis blocked by safety filters. Content may be inappropriate.">>
MsgAIFailed == <<"AI analysis failed to generate a response. Please try again.">>
MsgUnexpected == <<"An unexpected error occurred. Please try again.">>
MsgV1 == <<"Failed to analyze audio. Please try again with a valid audio file.">>
MsgWrong == <<"Something went wrong. Please try again.">>
MsgRestore == <<"Could not restore previous session. Please upload the file again.">>
MsgMissingKey == <<"Missing API Key: Please create a .env.local file with GEMINI_API_KEY=your_key_here">>
MsgNoResponse == <<"No response from Gemini">>
ToastBucket == <<"Supabase Storage: 'calls' bucket not found. Please create it in the dashboard.">>
ToastStorage == <<"Storage upload failed. Using local audio link.">>
ToastReport == <<"Full report copied to clipboard">>
ToastTranscript == <<"Transcript text copied to clipboard">>

\* thrown values other than provider errors (their text is the runtime's)
ErrUrl == <<"TypeError:", "createObjectURL">>
ErrRead == <<"FileReader", "error">>
ErrDecode == <<"Failed to load audio metadata">>
ErrSyntax == <<"SyntaxError:", "Unexpected", "token">>
ErrNullResult == <<"TypeError:", "Cannot read properties of null">>
ErrDb == <<"new row violates row-level security policy">>

\* what the provider call can reject with: an error of each of the five
\* failure subkinds, a rate-limit text that names a second number, and an
\* error without a message
ProviderErrors ==
    { [kind |-> "unsupportedMedia", msg |-> <<"got status:", "400", "Bad Request">>],
      [kind |-> "tooLarge", msg |-> <<"got status:", "413", "Payload Too Large">>],
      [kind |-> "rateLimited", msg |-> <<"got status:", "429", "Too Many Requests">>],
      [kind |-> "contentFiltered", msg |-> <<"Candidate was blocked", "due to SAFETY">>],
      [kind |-> "generic", msg |-> <<"got status:", "500", "Internal">>],
      [kind |-> "rateLimited", msg |-> <<"got status:", "429", "quota", "400", "per minute">>],
      [kind |-> "generic", msg |-> NoMsg] }

\* what the provider call can resolve with: response.text is empty, is not
\* JSON, is the JSON null, or is a JSON object with the fields listed
Replies ==
    { [text |-> "empty", fields |-> {}],
      [text |-> "garbage", fields |-> {}],
      [text |-> "null", fields |-> {}],
      [text |-> "object", fields |-> Fields],
      [text |-> "object", fields |-> Fields \ {"coaching"}] }
\* the reply by its kind: an object lacking a field is "partial"
ReplyKind(r) == IF r.text = "object" /\ r.fields # Fields THEN "partial" ELSE r.text

(* ------------------------------- state -------------------------------- *)
VARIABLES
    rev,             \* the revision of App (and of services/gemini)
    deep,            \* a long session with few outcomes, or a short one
    apiKey,          \* process.env.API_KEY / GEMINI_API_KEY is set
    ai,              \* the module-level client exists
    mounted,         \* the module loaded and App rendered
    user,            \* v3: the signed-in user (0: none)
    appState, analysisData, errorMsg, fileName, duration, audioUrl,
    recentUploads, toastMessage,
    toastTimers,     \* v3: the setTimeout callbacks of showToast not yet run
    analysisCache,   \* v1, v2: Map cacheKey -> CachedAnalysis
    db,              \* v3: the rows of table 'calls'
    fetching,        \* v3: fetchHistory calls awaiting their reply
    proc,            \* the async handler invocations in flight, by slot
    started,         \* user operations started so far
    origin,          \* per blob handle created so far, the handler that made it
    revoked,         \* per blob handle, the URL.revokeObjectURL calls on it
    calls,           \* per fingerprint, analyzeSalesCall invocations
    requests,        \* generateContent requests sent to the provider
    okFp,            \* fingerprints a file selection brought to SUCCESS
    lateCalls,       \* analyzeSalesCall invocations for a fingerprint in okFp
    upSinceIdle,     \* setAppState(UPLOADING) was called since the last IDLE
    last,            \* the sequence that finished most recently
    progress,        \* v3: the progress value, in tenths of a percent
    interval,        \* v3: the interval the progress effect has running
    effectDue,       \* v3: appState changed and the effect has yet to run
    view             \* TranscriptView: the helper under evaluation, its
                     \* arguments and, once it returned, its result

ui == <<appState, analysisData, errorMsg, fileName, duration, audioUrl,
        recentUploads, toastMessage>>
\* the progress bar, which is followed in SpecProgress
bar == <<progress, interval, effectDue>>
\* what no handler of App writes, and the bar
env == <<rev, deep, apiKey, mounted, view, bar>>
\* what no helper of TranscriptView writes
app == <<rev, deep, apiKey, ai, mounted, user, appState, analysisData,
         errorMsg, fileName, duration, audioUrl, recentUploads,
         toastMessage, toastTimers, analysisCache, db, fetching, proc,
         started, origin, revoked, calls, requests, okFp, lateCalls,
         upSinceIdle, last, bar>>
vars == <<app, view>>

\* the user operations and the outcomes explored in this behaviour
Budget == IF deep THEN MaxOps ELSE MaxOps - 1
RateLimited == [kind |-> "rateLimited", msg |-> <<"got status:", "429", "Too Many Requests">>]
Complete == [text |-> "object", fields |-> Fields]
ProviderErrorsNow == IF deep THEN {RateLimited} ELSE ProviderErrors
RepliesNow == IF deep THEN {Complete} ELSE Replies
UploadsNow == IF deep THEN {"ok"} ELSE {"ok", "bucket", "other"}

\* a handler invocation: its position and the locals of its closure
NoFile == [name |-> 0, size |-> 0, lastModified |-> 0]
NoRow == [id |-> -1, file_name |-> 0, duration |-> 0,
          analysis_result |-> NoData, audio_url |-> NoUrl]
NoProc == [pc |-> "none", kind |-> "none", file |-> NoFile, url |-> NoUrl,
           stale |-> NoUrl, res |-> NoData,
           item |-> NoRow, cached |-> << >>, n |-> 0]
NoLast == [kind |-> "none", key |-> << >>, outcome |-> "none",
           cause |-> "none", detail |-> "none"]
\* no helper of TranscriptView is under evaluation
NoView == [fn |-> "none"]
\* blob handles created so far
created == Len(origin)
InFlight == {s \in Seqs : proc[s].pc # "none"}
\* the slot a new invocation takes
FreeSlot == CHOOSE s \in Seqs : proc[s].pc = "none" /\ \A t \in Seqs : proc[t].pc = "none" => s <= t


(* --------------------------- pure helpers ----------------------------- *)
\* the files a user can pick: name, size and last-modified time
Files == {[name |-> n, size |-> 1, lastModified |-> 1] : n \in Fingerprints}
CACHE_VERSION == "v2"
CacheKey(file) == <<CACHE_VERSION, file.name, file.size, file.lastModified>>
Keys == {CacheKey(f) : f \in Files}

\* getAudioDuration(file): the label of the file's length; '' is 0, 'N/A' is -1
DurationOf(file) == file.name
NA == -1

\* x || y on messages: the empty message is falsy
OrMsg(x, y) == IF x = NoMsg THEN y ELSE x

\* analysisCache.current.has / get / set
CacheHas(key) == key \in DOMAIN analysisCache
CacheSet(key, entry) == (key :> entry) @@ analysisCache

\* addToRecentUploads, v2: skip a key already listed, else prepend
AddToRecentUploads(prev, key, name, dur) ==
    IF \E i \in DOMAIN prev : prev[i].cacheKey = key
    THEN prev
    ELSE <<[fileName |-> name, duration |-> dur, cacheKey |-> key]>> \o prev

\* v2, the inner catch around analyzeSalesCall: the first token found decides
MapGeminiError(msg) ==
    IF Includes(msg, "400") THEN MsgFormat
    ELSE IF Includes(msg, "413") THEN MsgTooLarge
    ELSE IF Includes(msg, "429") THEN MsgRate
    ELSE IF Includes(msg, "Candidate was blocked") THEN MsgBlocked
    ELSE MsgAIFailed

\* ParseReply had it swallowed the SyntaxError of JSON.parse
ParseReplyLenient(key, reply) ==
    IF reply.text = "empty" THEN [ok |-> FALSE, err |-> MsgNoResponse, res |-> NoData]
    ELSE IF reply.text \in {"garbage", "null"} THEN [ok |-> TRUE, err |-> NoMsg, res |-> NoData]
    ELSE [ok |-> TRUE, err |-> NoMsg, res |-> Result(key, reply.fields)]

\* analyzeSalesCall after the provider replied: if (!text) throw, JSON.parse.
\* The cast "as AnalysisResult" checks nothing.
ParseReply(key, reply) ==
    IF reply.text = "empty" THEN [ok |-> FALSE, err |-> MsgNoResponse, res |-> NoData]
    ELSE IF reply.text = "garbage" THEN [ok |-> FALSE, err |-> ErrSyntax, res |-> NoData]
    ELSE IF reply.text = "null" THEN [ok |-> TRUE, err |-> NoMsg, res |-> NoData]
    ELSE [ok |-> TRUE, err |-> NoMsg, res |-> Result(key, reply.fields)]

\* URL.revokeObjectURL(u); only a blob handle is a resource
Revoke(u) == IF u.k = "blob" THEN [revoked EXCEPT ![u.id] = @ + 1] ELSE revoked

\* the message handleFileSelect's outer catch shows for a thrown error
CatchMessage(err) ==
    IF rev = "v1" THEN MsgV1
    ELSE IF rev = "v2" THEN OrMsg(err, MsgUnexpected)
    ELSE OrMsg(err, MsgWrong)

\* handleFileSelect's outer catch: url is the local currentUrl, stale is the
\* audioUrl the v1 closure captured when the handler was bound
Catch(url, stale, err) ==
    LET u == IF rev = "v1" THEN stale ELSE url IN
    /\ appState' = "ERROR"
    /\ errorMsg' = CatchMessage(err)
    /\ revoked' = Revoke(u)
    /\ audioUrl' = IF rev # "v3" /\ u # NoUrl THEN NoUrl ELSE audioUrl

\* an invocation ends: its slot is freed and it is remembered as the last
\* one, with what the provider had settled its request with (detail)
FinishWith(s, p, outcome, cause, detail) ==
    /\ proc' = [proc EXCEPT ![s] = NoProc]
    /\ last' = [kind |-> p.kind, key |-> CacheKey(p.file),
                outcome |-> outcome, cause |-> cause, detail |-> detail]
Finish(s, p, outcome, cause) == FinishWith(s, p, outcome, cause, "none")

\* the error the outer catch receives when analyzeSalesCall rejects with err
AnalysisError(err) == IF rev = "v2" THEN MapGeminiError(err) ELSE err

\* getAIClient: the lazy client throws when no key is set and none was built
ClientThrows == rev = "v3" /\ ~ai /\ ~apiKey

(* -------------------------------- Init -------------------------------- *)
\* a row of an earlier session that has no stored audio and no duration
OldRow == [id |-> 0, file_name |-> 1, duration |-> 0,
           analysis_result |-> Result(<<"old">>, Fields), audio_url |-> NoUrl]

Init ==
    /\ rev \in {"v1", "v2", "v3"}
    /\ deep \in BOOLEAN
    /\ apiKey \in BOOLEAN
    \* gemini.ts builds the client at load, part_002 in getAIClient
    /\ ai = (rev # "v3")
    \* new GoogleGenAI({apiKey: undefined}) at module load may throw
    /\ mounted \in (IF rev # "v3" /\ ~apiKey THEN BOOLEAN ELSE {TRUE})
    /\ user = IF rev = "v3" THEN 0 ELSE 1
    /\ appState = "IDLE"
    /\ analysisData = NoData
    /\ errorMsg = NoMsg
    /\ fileName = 0
    /\ duration = 0
    /\ audioUrl = NoUrl
    /\ recentUploads = << >>
    /\ toastMessage = NoMsg
    /\ toastTimers = 0
    /\ progress = 0 /\ interval = "none" /\ effectDue = FALSE
    /\ analysisCache = << >>
    /\ db = IF rev = "v3" THEN <<OldRow>> ELSE << >>
    /\ fetching = 0
    /\ proc = [s \in Seqs |-> NoProc]
    /\ started = 0
    /\ origin = << >>
    /\ revoked = [h \in Handles |-> 0]
    /\ calls = [k \in Keys |-> 0]
    /\ requests = 0
    /\ okFp = {}
    /\ lateCalls = 0
    /\ upSinceIdle = FALSE
    /\ last = NoLast
    /\ view = NoView


(* ------------------------ handleFileSelect ---------------------------- *)
\* The FileUpload trigger is rendered (and enabled) in IDLE and ERROR only.
CanSelect ==
    /\ mounted
    /\ user # 0
    /\ appState \in {"IDLE", "ERROR"}
    /\ started < Budget

\* The event handler up to its first await.
HandleFileSelect(file) ==
    LET s == FreeSlot
        key == CacheKey(file)
        url == Blob(created + 1)
        p == [NoProc EXCEPT !.kind = "select", !.file = file, !.url = url,
                            !.stale = audioUrl, !.n = started + 1]
    IN
    /\ CanSelect
    /\ started' = started + 1
    /\ fileName' = file.name
    /\ upSinceIdle' = TRUE
    /\ \/ \* URL.createObjectURL throws: straight to the outer catch
          /\ Catch(NoUrl, audioUrl,
                   IF rev = "v2" THEN MsgPlayer ELSE ErrUrl)
          /\ Finish(s, [p EXCEPT !.url = NoUrl], "error", "player")
          /\ UNCHANGED origin
       \/ /\ origin' = Append(origin, "file")
          /\ audioUrl' = url
          /\ appState' = "UPLOADING"
          /\ errorMsg' = NoMsg
          /\ last' = last
          /\ revoked' = revoked
          /\ IF rev # "v3" /\ CacheHas(key)
             THEN proc' = [proc EXCEPT ![s] =
                      [p EXCEPT !.pc = "hitDelay",
                                !.cached = analysisCache[key]]]
             ELSE proc' = [proc EXCEPT ![s] = [p EXCEPT !.pc = "processing"]]
    /\ UNCHANGED <<env, ai, user, analysisData, duration, recentUploads,
                   toastMessage, toastTimers, analysisCache, db, fetching,  calls, requests, okFp, lateCalls>>

\* The cache-hit branch after its 300 ms delay.
CacheHitDelayDone(s) ==
    LET p == proc[s]
        key == CacheKey(p.file)
    IN
    /\ p.pc = "hitDelay"
    /\ duration' = p.cached.duration
    /\ analysisData' = p.cached.result
    /\ appState' = "SUCCESS"
    /\ recentUploads' = IF rev = "v2"
                        THEN AddToRecentUploads(recentUploads, key,
                                                p.file.name, p.cached.duration)
                        ELSE recentUploads
    /\ okFp' = okFp \cup {key}
    /\ Finish(s, p, "success", "cacheHit")
    /\ UNCHANGED <<env, ai, user, errorMsg, fileName, audioUrl, toastMessage, toastTimers,
                   analysisCache, db, fetching, started, origin, revoked, calls, requests, lateCalls, upSinceIdle>>

\* AnalyzeSalesCall had the client sent the request a second time
AnalyzeSalesCallResending(s, p) ==
    LET key == CacheKey(p.file) IN
    /\ calls' = [calls EXCEPT ![key] = @ + 1]
    /\ lateCalls' = IF key \in okFp THEN lateCalls + 1 ELSE lateCalls
    /\ IF ClientThrows
       THEN /\ Catch(p.url, p.stale, AnalysisError(MsgMissingKey))
            /\ Finish(s, p, "error", "config")
            /\ UNCHANGED <<ai, requests>>
       ELSE /\ ai' = TRUE
            /\ requests' = requests + 2
            /\ proc' = [proc EXCEPT ![s] = [p EXCEPT !.pc = "analyzing"]]
            /\ UNCHANGED <<errorMsg, revoked, audioUrl, last>>

\* analyzeSalesCall is invoked by sequence s (p is its record): either
\* getAIClient throws and the outer catch runs, or one request goes out.
AnalyzeSalesCall(s, p) ==
    LET key == CacheKey(p.file) IN
    /\ calls' = [calls EXCEPT ![key] = @ + 1]
    /\ lateCalls' = IF key \in okFp THEN lateCalls + 1 ELSE lateCalls
    /\ IF ClientThrows
       THEN /\ Catch(p.url, p.stale, AnalysisError(MsgMissingKey))
            /\ Finish(s, p, "error", "config")
            /\ UNCHANGED <<ai, requests>>
       ELSE /\ ai' = TRUE
            /\ requests' = requests + 1
            /\ proc' = [proc EXCEPT ![s] = [p EXCEPT !.pc = "analyzing"]]
            /\ UNCHANGED <<errorMsg, revoked, audioUrl, last>>

\* Promise.all([fileToBase64(file), getAudioDuration(file)]) settles with r:
\* it resolves ("ok") when both have resolved, and rejects with the first
\* rejection, whatever the other promise does.
PromiseAllDone(s, p, r) ==
    /\ IF r # "ok"
       THEN /\ Catch(p.url, p.stale,
                     IF rev = "v2" THEN MsgProcess
                     ELSE IF r = "encode" THEN ErrRead ELSE ErrDecode)
            /\ Finish(s, p, "error", r)
            /\ UNCHANGED <<ai, duration, calls, requests, lateCalls>>
       ELSE /\ duration' = DurationOf(p.file)
            /\ IF rev = "v3"
               THEN \* ANALYZING, then await supabase.storage.upload
                    /\ appState' = "ANALYZING"
                    /\ proc' = [proc EXCEPT ![s] = [p EXCEPT !.pc = "storing"]]
                    /\ UNCHANGED <<ai, errorMsg, audioUrl, revoked, calls,
                                   requests, lateCalls, last>>
               ELSE /\ AnalyzeSalesCall(s, p)
                    /\ IF ClientThrows THEN TRUE ELSE appState' = "ANALYZING"
    /\ UNCHANGED <<env, user, analysisData, fileName, recentUploads,
                   toastMessage, toastTimers, analysisCache, db, fetching, started,
                   origin, okFp, upSinceIdle>>

\* one of the two promises resolved and the other is pending: Promise.all
\* stays pending and handleFileSelect stays at its await
AwaitOther(s, pc) ==
    /\ proc' = [proc EXCEPT ![s].pc = pc]
    /\ UNCHANGED <<env, ai, user, appState, analysisData, errorMsg, fileName,
                   duration, audioUrl, recentUploads, toastMessage, toastTimers,
                   analysisCache, db, fetching, started, origin, revoked,
                   calls, requests, okFp, lateCalls, upSinceIdle, last>>

\* FileToBase64Done had Promise.all resolved with the first resolution
FileToBase64DoneRacing(s) ==
    LET p == proc[s] IN
    /\ p.pc \in {"processing", "measured"}
    /\ \/ ~deep /\ PromiseAllDone(s, p, "encode")
       \/ PromiseAllDone(s, p, "ok")

\* fileToBase64(file) settles: rejected, or resolved; in a deep exploration
\* both promises resolve, this one first
FileToBase64Done(s) ==
    LET p == proc[s] IN
    /\ p.pc \in {"processing", "measured"}
    /\ \/ ~deep /\ PromiseAllDone(s, p, "encode")
       \/ IF p.pc = "measured"
          THEN PromiseAllDone(s, p, "ok")
          ELSE AwaitOther(s, "encoded")

\* getAudioDuration(file) settles: rejected, or resolved
GetAudioDurationDone(s) ==
    LET p == proc[s] IN
    /\ p.pc \in (IF deep THEN {"encoded"} ELSE {"processing", "encoded"})
    /\ \/ ~deep /\ PromiseAllDone(s, p, "decode")
       \/ IF p.pc = "encoded"
          THEN PromiseAllDone(s, p, "ok")
          ELSE AwaitOther(s, "measured")

\* UploadReturned had it thrown the upload error to the catch block
UploadReturnedAborting(s, p, up) ==
    /\ toastMessage' = toastMessage
    /\ toastTimers' = toastTimers
    /\ IF up # "ok"
       THEN /\ Catch(p.url, p.stale, ToastStorage)
            /\ Finish(s, p, "error", "upload")
            /\ UNCHANGED <<ai, requests, calls, lateCalls>>
       ELSE /\ AnalyzeSalesCall(s, p)
            /\ IF ClientThrows THEN TRUE ELSE appState' = appState

\* v3: what handleFileSelect does with the outcome up of the storage upload:
\* an upload error sets a toast, and analyzeSalesCall is invoked either way
UploadReturned(s, p, up) ==
    /\ toastMessage' = IF up = "bucket" THEN ToastBucket
                       ELSE IF up = "other" THEN ToastStorage
                       ELSE toastMessage
    /\ toastTimers' = toastTimers
    /\ AnalyzeSalesCall(s, p)
    /\ IF ClientThrows THEN TRUE ELSE appState' = appState

\* v3: supabase.storage.upload returned
StorageUploadDone(s) ==
    LET p == proc[s] IN
    /\ p.pc = "storing"
    /\ \E up \in UploadsNow : UploadReturned(s, p, up)
    /\ UNCHANGED <<env, user, analysisData, fileName, duration, recentUploads,
                   analysisCache, db, fetching, started, origin, okFp,
                   upSinceIdle>>

\* the tail of handleFileSelect in v1 and v2 once analyzeSalesCall returned res
StoreAndShow(s, p, res, detail) ==
    LET key == CacheKey(p.file)
        dur == DurationOf(p.file)
        entry == IF rev = "v2"
                 THEN [result |-> res, duration |-> dur, file |-> p.file]
                 ELSE [result |-> res, duration |-> dur]
    IN
    /\ analysisCache' = CacheSet(key, entry)
    /\ recentUploads' = IF rev = "v2"
                        THEN AddToRecentUploads(recentUploads, key,
                                                p.file.name, dur)
                        ELSE recentUploads
    /\ analysisData' = res
    /\ appState' = "SUCCESS"
    /\ okFp' = okFp \cup {key}
    /\ FinishWith(s, p, "success", "analysed", detail)
    /\ UNCHANGED <<errorMsg, audioUrl, revoked>>

\* Rejected had it stored an entry for the failed attempt
RejectedCaching(s, p, err, cause, detail) ==
    /\ Catch(p.url, p.stale, AnalysisError(err))
    /\ FinishWith(s, p, "error", cause, detail)
    /\ analysisCache' = CacheSet(CacheKey(p.file),
                                 [result |-> NoData, duration |-> DurationOf(p.file)])
    /\ UNCHANGED <<analysisData, recentUploads, okFp>>

\* analyzeSalesCall threw err: the catch blocks run and nothing is stored
Rejected(s, p, err, cause, detail) ==
    /\ Catch(p.url, p.stale, AnalysisError(err))
    /\ FinishWith(s, p, "error", cause, detail)
    /\ UNCHANGED <<analysisData, recentUploads, analysisCache, okFp>>

\* what the provider call can settle with: with no key set it only rejects
Settlements ==
    {[ok |-> FALSE, err |-> e.msg, detail |-> e.kind,
      reply |-> [text |-> "empty", fields |-> {}]] : e \in ProviderErrorsNow}
    \cup (IF apiKey
          THEN {[ok |-> TRUE, err |-> NoMsg, detail |-> ReplyKind(r),
                 reply |-> r] : r \in RepliesNow}
          ELSE {})

\* client.models.generateContent settled and analyzeSalesCall returns or throws
GenerateContentDone(s) ==
    LET p == proc[s] IN
    /\ p.pc = "analyzing"
    /\ \E o \in Settlements :
         LET parsed == IF o.ok THEN ParseReply(CacheKey(p.file), o.reply)
                       ELSE [ok |-> FALSE, err |-> o.err, res |-> NoData]
         IN
         IF ~parsed.ok
         THEN Rejected(s, p, parsed.err,
                       IF o.ok THEN "malformed" ELSE "provider", o.detail)
         ELSE IF rev # "v3"
         THEN StoreAndShow(s, p, parsed.res, o.detail)
         ELSE IF parsed.res = NoData
         THEN \* building the row reads result.verdict of null
              /\ Catch(p.url, p.stale, ErrNullResult)
              /\ FinishWith(s, p, "error", "nullResult", o.detail)
              /\ UNCHANGED <<analysisData, recentUploads, analysisCache, okFp>>
         ELSE /\ proc' = [proc EXCEPT ![s] =
                            [p EXCEPT !.pc = "inserting", !.res = parsed.res]]
              /\ UNCHANGED <<appState, errorMsg, audioUrl, revoked, last,
                             analysisData, recentUploads, analysisCache, okFp>>
    /\ UNCHANGED <<env, ai, user, fileName, duration, toastMessage, toastTimers, db,
                   fetching, started, origin, calls,
                   requests, lateCalls, upSinceIdle>>

\* v3: the insert into table 'calls' returned
InsertDone(s) ==
    LET p == proc[s]
        row == [id |-> p.n, file_name |-> p.file.name,
                duration |-> DurationOf(p.file), analysis_result |-> p.res,
                audio_url |-> Pub(p.n)]
        detail == IF p.res.fields = Fields THEN "object" ELSE "partial"
    IN
    /\ p.pc = "inserting"
    /\ \/ \* if (dbError) throw dbError
          /\ Catch(p.url, p.stale, ErrDb)
          /\ FinishWith(s, p, "error", "insert", detail)
          /\ UNCHANGED <<analysisData, db, fetching, okFp>>
       \/ /\ db' = Append(db, row)
          /\ analysisData' = p.res
          /\ audioUrl' = Pub(p.n)
          /\ appState' = "SUCCESS"
          /\ fetching' = fetching + 1
          /\ okFp' = okFp \cup {CacheKey(p.file)}
          /\ FinishWith(s, p, "success", "analysed", detail)
          /\ UNCHANGED <<errorMsg, revoked>>
    /\ UNCHANGED <<env, ai, user, fileName, duration, recentUploads,
                   toastMessage, toastTimers, analysisCache, started, origin,  calls, requests, lateCalls, upSinceIdle>>

\* rows ordered by created_at descending
Newest(rows) == [i \in 1..Len(rows) |-> rows[Len(rows) + 1 - i]]

\* v3: a fetchHistory query returned: an error is only logged (in a deep
\* exploration the query succeeds)
FetchHistoryDone ==
    /\ fetching > 0
    /\ fetching' = fetching - 1
    /\ \/ recentUploads' = Newest(db)
       \/ ~deep /\ recentUploads' = recentUploads
    /\ UNCHANGED <<env, ai, user, appState, analysisData, errorMsg, fileName,
                   duration, audioUrl, toastMessage, toastTimers, analysisCache, db, proc,
                   started, origin, revoked, calls,
                   requests, okFp, lateCalls, upSinceIdle, last>>


(* ------------------------ handleRecentSelect -------------------------- *)
\* A click on entry i of the recent list (rendered with the upload trigger).
HandleRecentSelect(i) ==
    LET s == FreeSlot
        item == recentUploads[i]
        p == IF rev = "v2"
             THEN [NoProc EXCEPT !.kind = "recent", !.pc = "recentDelay",
                                 !.file = analysisCache[item.cacheKey].file,
                                 !.cached = analysisCache[item.cacheKey]]
             ELSE [NoProc EXCEPT !.kind = "recent", !.pc = "recentDelay",
                                 !.item = item]
    IN
    /\ rev \in {"v2", "v3"}
    /\ CanSelect
    /\ i \in DOMAIN recentUploads
    /\ rev = "v2" => CacheHas(item.cacheKey)
    /\ started' = started + 1
    /\ appState' = "UPLOADING"
    /\ upSinceIdle' = TRUE
    /\ proc' = [proc EXCEPT ![s] = p]
    /\ UNCHANGED <<env, ai, user, analysisData, errorMsg, fileName, duration,
                   audioUrl, recentUploads, toastMessage, toastTimers, analysisCache, db,
                   fetching, origin, revoked, calls,
                   requests, okFp, lateCalls, last>>

\* RecentDelayDone had it left the result on display as it was
RecentDelayDoneUnbound(s) ==
    LET p == proc[s] IN
    /\ p.pc = "recentDelay"
    /\ IF rev = "v2"
       THEN \/ /\ origin' = Append(origin, "recent")
               /\ audioUrl' = Blob(created + 1)
               /\ fileName' = p.cached.file.name
               /\ duration' = p.cached.duration
               /\ analysisData' = analysisData
               /\ appState' = "SUCCESS"
               /\ Finish(s, p, "success", "restored")
               /\ UNCHANGED <<errorMsg, upSinceIdle>>
            \/ \* URL.createObjectURL throws
               /\ appState' = "IDLE"
               /\ errorMsg' = MsgRestore
               /\ upSinceIdle' = FALSE
               /\ Finish(s, p, "idle", "player")
               /\ UNCHANGED <<origin, audioUrl, fileName, duration,
                              analysisData>>
       ELSE /\ fileName' = p.item.file_name
            /\ duration' = IF p.item.duration = 0 THEN NA ELSE p.item.duration
            /\ analysisData' = analysisData
            /\ audioUrl' = p.item.audio_url
            /\ appState' = "SUCCESS"
            /\ Finish(s, p, "success", "restored")
            /\ UNCHANGED <<origin, errorMsg, upSinceIdle>>
    /\ UNCHANGED <<env, ai, user, recentUploads, toastMessage, toastTimers, analysisCache,
                   db, fetching, started, revoked, calls,
                   requests, okFp, lateCalls>>

\* handleRecentSelect after its delay
RecentDelayDone(s) ==
    LET p == proc[s] IN
    /\ p.pc = "recentDelay"
    /\ IF rev = "v2"
       THEN \/ /\ origin' = Append(origin, "recent")
               /\ audioUrl' = Blob(created + 1)
               /\ fileName' = p.cached.file.name
               /\ duration' = p.cached.duration
               /\ analysisData' = p.cached.result
               /\ appState' = "SUCCESS"
               /\ Finish(s, p, "success", "restored")
               /\ UNCHANGED <<errorMsg, upSinceIdle>>
            \/ \* URL.createObjectURL throws
               /\ appState' = "IDLE"
               /\ errorMsg' = MsgRestore
               /\ upSinceIdle' = FALSE
               /\ Finish(s, p, "idle", "player")
               /\ UNCHANGED <<origin, audioUrl, fileName, duration,
                              analysisData>>
       ELSE /\ fileName' = p.item.file_name
            /\ duration' = IF p.item.duration = 0 THEN NA ELSE p.item.duration
            /\ analysisData' = p.item.analysis_result
            /\ audioUrl' = p.item.audio_url
            /\ appState' = "SUCCESS"
            /\ Finish(s, p, "success", "restored")
            /\ UNCHANGED <<origin, errorMsg, upSinceIdle>>
    /\ UNCHANGED <<env, ai, user, recentUploads, toastMessage, toastTimers, analysisCache,
                   db, fetching, started, revoked, calls,
                   requests, okFp, lateCalls>>

(* ----------------------- reset, auth, audio link ---------------------- *)
\* ResetWith had it dropped the URL without revoking it
ResetKeepingHandle(u) ==
    /\ revoked' = revoked
    /\ audioUrl' = NoUrl
    /\ appState' = "IDLE"
    /\ analysisData' = NoData
    /\ fileName' = 0
    /\ duration' = 0
    /\ errorMsg' = NoMsg
    /\ upSinceIdle' = FALSE

\* handleReset's writes, with u the audioUrl its closure holds
ResetWith(u) ==
    /\ revoked' = Revoke(u)
    /\ audioUrl' = NoUrl
    /\ appState' = "IDLE"
    /\ analysisData' = NoData
    /\ fileName' = 0
    /\ duration' = 0
    /\ errorMsg' = NoMsg
    /\ upSinceIdle' = FALSE

\* "Analyze New Call" (and, in v3, the logo), rendered in SUCCESS
HandleReset ==
    /\ mounted
    /\ user # 0
    /\ appState = "SUCCESS"
    /\ ResetWith(audioUrl)
    /\ UNCHANGED <<env, ai, user, recentUploads, toastMessage, toastTimers, analysisCache,
                   db, fetching, proc, started, origin,
                   calls, requests, okFp, lateCalls, last>>

\* v3: sign-out; the auth listener clears the history and calls the
\* handleReset of the first render, whose audioUrl is null
SignOut ==
    /\ rev = "v3"
    /\ mounted
    /\ user # 0
    /\ started < Budget
    /\ started' = started + 1
    /\ user' = 0
    /\ recentUploads' = << >>
    /\ ResetWith(NoUrl)
    /\ UNCHANGED <<env, ai, toastMessage, toastTimers, analysisCache, db, fetching, proc,
                   origin, calls, requests, okFp, lateCalls, last>>

\* v3: a session appears (restored or signed in); the user effect fetches
SignIn ==
    /\ rev = "v3"
    /\ mounted
    /\ user = 0
    /\ user' = 1
    /\ fetching' = fetching + 1
    /\ UNCHANGED <<env, ai, appState, analysisData, errorMsg, fileName,
                   duration, audioUrl, recentUploads, toastMessage, toastTimers,
                   analysisCache, db, proc, started, origin, revoked, calls,
                   requests, okFp, lateCalls, upSinceIdle, last>>

\* v3: "LINK LOCAL AUDIO" of the sticky player, shown in SUCCESS without a URL
LinkLocalAudio ==
    /\ rev = "v3"
    /\ mounted
    /\ user # 0
    /\ appState = "SUCCESS"
    /\ audioUrl = NoUrl
    /\ origin' = Append(origin, "link")
    /\ audioUrl' = Blob(created + 1)
    /\ UNCHANGED <<env, ai, user, appState, analysisData, errorMsg, fileName,
                   duration, recentUploads, toastMessage, toastTimers, analysisCache, db,
                   fetching, proc, started, revoked, calls, requests, okFp,
                   lateCalls, upSinceIdle, last>>

\* v3: showToast sets the message and starts a timer of 3000 ms
ShowToast(message) ==
    /\ toastMessage' = message
    /\ toastTimers' = toastTimers + 1

\* v3: a button of the share menu, which the dashboard shows in SUCCESS with
\* analysisData; reading a field the data lacks throws before showToast
CopyFrom(needed, message) ==
    /\ rev = "v3"
    /\ mounted
    /\ user # 0
    /\ ~deep
    /\ appState = "SUCCESS"
    /\ analysisData # NoData
    /\ needed \subseteq analysisData.fields
    /\ started < Budget
    /\ started' = started + 1
    /\ ShowToast(message)
    /\ UNCHANGED <<env, ai, user, appState, analysisData, errorMsg, fileName,
                   duration, audioUrl, recentUploads, analysisCache, db,
                   fetching, proc, origin, revoked, calls, requests, okFp,
                   lateCalls, upSinceIdle, last>>

HandleCopyReport == CopyFrom({"summary", "topics", "coaching"}, ToastReport)

HandleCopyTranscript == CopyFrom({"transcript"}, ToastTranscript)

\* v3: the callback of a showToast timer runs: setToastMessage(null)
ToastTimeout ==
    /\ toastTimers > 0
    /\ toastTimers' = toastTimers - 1
    /\ toastMessage' = NoMsg
    /\ UNCHANGED <<env, ai, user, appState, analysisData, errorMsg, fileName,
                   duration, audioUrl, recentUploads, analysisCache, db,
                   fetching, proc, started, origin, revoked, calls, requests,
                   okFp, lateCalls, upSinceIdle, last>>

(* -------------------------------- Next -------------------------------- *)
Next ==
    \/ \E f \in Files : HandleFileSelect(f)
    \/ \E s \in Seqs : CacheHitDelayDone(s)
    \/ \E s \in Seqs : FileToBase64Done(s)
    \/ \E s \in Seqs : GetAudioDurationDone(s)
    \/ \E s \in Seqs : StorageUploadDone(s)
    \/ \E s \in Seqs : GenerateContentDone(s)
    \/ \E s \in Seqs : InsertDone(s)
    \/ FetchHistoryDone
    \/ \E i \in 1..MaxOps : HandleRecentSelect(i)
    \/ \E s \in Seqs : RecentDelayDone(s)
    \/ HandleReset
    \/ SignOut
    \/ SignIn
    \/ LinkLocalAudio
    \/ HandleCopyReport
    \/ HandleCopyTranscript
    \/ ToastTimeout

Spec == Init /\ [][Next]_vars

\* Every awaited call settles and every delay ends: a continuation that is
\* ready to run is run by the event loop. What the user does is not forced.
Settling ==
    /\ \A s \in Seqs :
         /\ WF_vars(CacheHitDelayDone(s))
         /\ WF_vars(FileToBase64Done(s))
         /\ WF_vars(GetAudioDurationDone(s))
         /\ WF_vars(StorageUploadDone(s))
         /\ WF_vars(GenerateContentDone(s))
         /\ WF_vars(InsertDone(s))
         /\ WF_vars(RecentDelayDone(s))
    /\ WF_vars(FetchHistoryDone)
    /\ WF_vars(ToastTimeout)

SpecLive == Spec /\ Settling


(* --------------------------- TranscriptView --------------------------- *)
\* Strings are sequences of one-character strings.
\* the longest timecode string, transcript, query and text, and the latest
\* playback time, that are evaluated
MaxStamp == 5
MaxSegs == 2
MaxQuery == 2
MaxText == 3
MaxTime == 6

\* the strings over alphabet of length at most n
StringsUpTo(alphabet, n) == UNION {[1..k -> alphabet] : k \in 0..n}

\* a JavaScript number: an integer here, or NaN
Num(v) == [nan |-> FALSE, v |-> v]
NaN == [nan |-> TRUE, v |-> 0]
Plus(a, b) == IF a.nan \/ b.nan THEN NaN ELSE Num(a.v + b.v)
Times(a, b) == IF a.nan \/ b.nan THEN NaN ELSE Num(a.v * b.v)
\* a <= t for a playback time t; every comparison with NaN is false
AtMost(a, t) == ~a.nan /\ a.v <= t

Digits == {"0", "1", "2", "3", "4", "5", "6", "7", "8", "9"}
DigitValue(c) ==
    CASE c = "0" -> 0 [] c = "1" -> 1 [] c = "2" -> 2 [] c = "3" -> 3
      [] c = "4" -> 4 [] c = "5" -> 5 [] c = "6" -> 6 [] c = "7" -> 7
      [] c = "8" -> 8 [] OTHER -> 9

\* String.prototype.trim: the blanks at both ends removed
RECURSIVE Trim(_)
Trim(str) ==
    IF str = << >> THEN << >>
    ELSE IF Head(str) = " " THEN Trim(Tail(str))
    ELSE IF str[Len(str)] = " " THEN Trim(SubSeq(str, 1, Len(str) - 1))
    ELSE str

\* the decimal value of a string of digits, read left to right
RECURSIVE Decimal(_, _)
Decimal(ds, acc) ==
    IF ds = << >> THEN acc ELSE Decimal(Tail(ds), 10 * acc + DigitValue(Head(ds)))

\* Number(part): blanks trimmed, the empty string is 0, digits are their
\* decimal value, any other token here is NaN
Number(part) ==
    LET t == Trim(part) IN
    IF t = << >> THEN Num(0)
    ELSE IF \A i \in DOMAIN t : t[i] \in Digits THEN Num(Decimal(t, 0))
    ELSE NaN

\* str.split(sep): the parts between the separators; one part when there
\* is no separator
RECURSIVE Split(_, _, _)
Split(str, sep, part) ==
    IF str = << >> THEN <<part>>
    ELSE IF Head(str) = sep THEN <<part>> \o Split(Tail(str), sep, << >>)
    ELSE Split(Tail(str), sep, Append(part, Head(str)))

\* parseTimestamp had it weighted the first of three parts like minutes
parseTimestampMinutes(timeStr) ==
    IF timeStr = << >> THEN Num(0)
    ELSE LET strs == Split(timeStr, ":", << >>)
             parts == [i \in DOMAIN strs |-> Number(strs[i])]
         IN IF Len(parts) = 2
            THEN Plus(Times(parts[1], Num(60)), parts[2])
            ELSE IF Len(parts) = 3
            THEN Plus(Plus(Times(parts[1], Num(60)), Times(parts[2], Num(60))),
                      parts[3])
            ELSE Num(0)

\* parseTimestamp: split(':').map(Number), two parts are minutes and
\* seconds, three are hours, minutes and seconds, anything else is 0
parseTimestamp(timeStr) ==
    IF timeStr = << >> THEN Num(0)
    ELSE LET strs == Split(timeStr, ":", << >>)
             parts == [i \in DOMAIN strs |-> Number(strs[i])]
         IN IF Len(parts) = 2
            THEN Plus(Times(parts[1], Num(60)), parts[2])
            ELSE IF Len(parts) = 3
            THEN Plus(Plus(Times(parts[1], Num(3600)), Times(parts[2], Num(60))),
                      parts[3])
            ELSE Num(0)

\* String.prototype.toLowerCase, on the letters that are evaluated
LowerOf(c) == CASE c = "A" -> "a" [] c = "B" -> "b" [] OTHER -> c
ToLowerCase(str) == [i \in DOMAIN str |-> LowerOf(str[i])]

\* String.prototype.includes: q occurs in str as a substring
StrIncludes(str, q) ==
    \E i \in 1..(Len(str) + 1) :
        /\ i + Len(q) - 1 <= Len(str)
        /\ SubSeq(str, i, i + Len(q) - 1) = q

\* activeSegment had it scanned from the first segment on
RECURSIVE ScanUp(_, _, _)
ScanUp(transcript, currentTime, i) ==
    IF i > Len(transcript) THEN 0
    ELSE IF AtMost(parseTimestamp(transcript[i].timestamp), currentTime) THEN i
    ELSE ScanUp(transcript, currentTime, i + 1)

\* the loop of activeSegment from index i down: the first segment met whose
\* start is at most currentTime; 0 is null, a segment is given by its
\* position in the transcript (1 is the first)
RECURSIVE ScanDown(_, _, _)
ScanDown(transcript, currentTime, i) ==
    IF i = 0 THEN 0
    ELSE IF AtMost(parseTimestamp(transcript[i].timestamp), currentTime) THEN i
    ELSE ScanDown(transcript, currentTime, i - 1)

activeSegmentFromStart(transcript, currentTime) ==
    IF transcript = << >> THEN 0
    ELSE ScanUp(transcript, currentTime, 1)

activeSegment(transcript, currentTime) ==
    IF transcript = << >> THEN 0
    ELSE ScanDown(transcript, currentTime, Len(transcript))

\* one segment of filteredTranscript's filter
Matches(segment, query) ==
    \/ StrIncludes(ToLowerCase(segment.text), query)
    \/ StrIncludes(ToLowerCase(segment.speaker), query)

\* filteredTranscript had it tested the query without trim
filteredTranscriptUntrimmed(transcript, searchQuery) ==
    IF searchQuery = << >> THEN transcript
    ELSE LET query == ToLowerCase(searchQuery)
             Test(segment) == Matches(segment, query)
         IN SelectSeq(transcript, Test)

\* filteredTranscript had it compared the letters as they are written
filteredTranscriptExact(transcript, searchQuery) ==
    IF Trim(searchQuery) = << >> THEN transcript
    ELSE LET Test(segment) == \/ StrIncludes(segment.text, searchQuery)
                              \/ StrIncludes(segment.speaker, searchQuery)
         IN SelectSeq(transcript, Test)

filteredTranscript(transcript, searchQuery) ==
    IF Trim(searchQuery) = << >> THEN transcript
    ELSE LET query == ToLowerCase(searchQuery)
             Test(segment) == Matches(segment, query)
         IN SelectSeq(transcript, Test)

\* the characters highlight.replace(/[.*+?^${}()|[\]\\]/g, '\\$&') escapes
Metacharacters ==
    {".", "*", "+", "?", "^", "$", "{", "}", "(", ")", "|", "[", "]", "\\"}

\* Escape had the replace been left out: the query is the pattern
RECURSIVE EscapeNothing(_)
EscapeNothing(highlight) ==
    IF highlight = << >> THEN << >>
    ELSE <<Head(highlight)>> \o EscapeNothing(Tail(highlight))

RECURSIVE Escape(_)
Escape(highlight) ==
    IF highlight = << >> THEN << >>
    ELSE (IF Head(highlight) \in Metacharacters
          THEN <<"\\", Head(highlight)>> ELSE <<Head(highlight)>>)
         \o Escape(Tail(highlight))

\* new RegExp(`(${pattern})`, 'gi') for the patterns that are evaluated: an
\* escaped character is that character, "." is any character, "+" repeats
\* the atom before it and is a SyntaxError with nothing to repeat
Atom(any, c) == [any |-> any, c |-> c, many |-> FALSE]
RECURSIVE RegExp(_, _)
RegExp(pattern, atoms) ==
    IF pattern = << >> THEN [ok |-> TRUE, atoms |-> atoms]
    ELSE IF Head(pattern) = "\\"
    THEN IF Len(pattern) = 1 THEN [ok |-> FALSE, atoms |-> atoms]
         ELSE RegExp(Tail(Tail(pattern)), Append(atoms, Atom(FALSE, pattern[2])))
    ELSE IF Head(pattern) = "."
    THEN RegExp(Tail(pattern), Append(atoms, Atom(TRUE, ".")))
    ELSE IF Head(pattern) = "+"
    THEN IF atoms = << >> \/ atoms[Len(atoms)].many
         THEN [ok |-> FALSE, atoms |-> atoms]
         ELSE RegExp(Tail(pattern),
                     [atoms EXCEPT ![Len(atoms)].many = TRUE])
    ELSE RegExp(Tail(pattern), Append(atoms, Atom(FALSE, Head(pattern))))

\* the position after the match of atoms k.. that starts at pos, 0 when
\* there is none; a repetition is greedy, letters match in either case
RECURSIVE MatchEnd(_, _, _, _)
MatchEnd(atoms, k, text, pos) ==
    IF k > Len(atoms) THEN pos
    ELSE LET a == atoms[k]
             Fits(i) == /\ i <= Len(text)
                        /\ a.any \/ LowerOf(text[i]) = LowerOf(a.c)
         IN IF ~a.many
            THEN IF Fits(pos) THEN MatchEnd(atoms, k + 1, text, pos + 1) ELSE 0
            ELSE LET counts == {n \in 1..(Len(text) + 1 - pos) :
                                  /\ \A j \in pos..(pos + n - 1) : Fits(j)
                                  /\ MatchEnd(atoms, k + 1, text, pos + n) # 0}
                 IN IF counts = {} THEN 0
                    ELSE MatchEnd(atoms, k + 1, text,
                           pos + (CHOOSE n \in counts : \A m \in counts : m <= n))

\* text.split(regex) with one capturing group: the text between the
\* matches, and each match, in order
RECURSIVE SplitAt(_, _, _, _)
SplitAt(atoms, text, pos, from) ==
    IF pos > Len(text) THEN <<SubSeq(text, from, Len(text))>>
    ELSE LET e == MatchEnd(atoms, 1, text, pos)
         IN IF e > pos
            THEN <<SubSeq(text, from, pos - 1), SubSeq(text, pos, e - 1)>>
                 \o SplitAt(atoms, text, e, e)
            ELSE SplitAt(atoms, text, pos + 1, from)

\* renderHighlightedText: the parts it renders in order, marked = TRUE for
\* a part in the highlighted span; thrown when new RegExp throws
renderHighlightedText(text, highlight) ==
    IF Trim(highlight) = << >>
    THEN [thrown |-> FALSE, parts |-> <<[str |-> text, marked |-> FALSE]>>]
    ELSE LET regex == RegExp(Escape(highlight), << >>)
             parts == SplitAt(regex.atoms, text, 1, 1)
         IN IF ~regex.ok THEN [thrown |-> TRUE, parts |-> << >>]
            ELSE [thrown |-> FALSE,
                  parts |-> [i \in DOMAIN parts |->
                      [str |-> parts[i],
                       marked |-> ToLowerCase(parts[i]) = ToLowerCase(highlight)]]]

\* the positions in the transcript of the segments filteredTranscript
\* returns (segment === activeSegment compares objects, not contents)
ShownPositions(transcript, searchQuery) ==
    LET all == [i \in DOMAIN transcript |-> i] IN
    IF Trim(searchQuery) = << >> THEN all
    ELSE LET query == ToLowerCase(searchQuery)
             Test(i) == Matches(transcript[i], query)
         IN SelectSeq(all, Test)

\* isActive of the j-th rendered segment: segment === activeSegment &&
\* !searchQuery; only the empty string is falsy
isActive(transcript, currentTime, searchQuery, j) ==
    /\ ShownPositions(transcript, searchQuery)[j]
         = activeSegment(transcript, currentTime)
    /\ searchQuery = << >>

\* the rendered segments that are marked as active
ActiveMarks(transcript, currentTime, searchQuery) ==
    {j \in DOMAIN ShownPositions(transcript, searchQuery) :
        isActive(transcript, currentTime, searchQuery, j)}

\* The helpers are evaluated one call at a time: view holds the call, its
\* arguments, and its result once it has returned.
TimeStrs == StringsUpTo({"0", "3", "5", ":", "a"}, MaxStamp)
Stamp(m, s) == <<m, ":", s>>
Segments(timestamps, speakers, texts) ==
    [timestamp : timestamps, speaker : speakers, text : texts]
TimedTranscripts ==
    StringsUpTo(Segments({Stamp("0", "0"), Stamp("0", "3"), Stamp("0", "5"),
                          Stamp("a", "0")}, {<<"A">>}, {<<"a">>}), MaxSegs)
SpokenTranscripts ==
    StringsUpTo(Segments({Stamp("0", "0")}, {<<"A">>, <<"b">>},
                         {<<"a", "b">>, <<"B">>, <<"b", " ", "A">>}), MaxSegs)
SearchQueries == StringsUpTo({"a", "A", "b", " "}, MaxQuery)
Texts == StringsUpTo({"a", "A", ".", "+"}, MaxText)
Highlights == StringsUpTo({"a", "A", ".", "+", " "}, MaxQuery)

Calls ==
    [fn : {"parseTimestamp"}, timeStr : TimeStrs, done : {FALSE}]
    \cup [fn : {"activeSegment"}, transcript : TimedTranscripts,
          currentTime : 0..MaxTime, done : {FALSE}]
    \cup [fn : {"filteredTranscript"}, transcript : SpokenTranscripts,
          searchQuery : SearchQueries, done : {FALSE}]
    \cup [fn : {"renderHighlightedText"}, text : Texts,
          highlight : Highlights, done : {FALSE}]
    \cup [fn : {"render"}, transcript : TimedTranscripts,
          currentTime : 0..MaxTime, searchQuery : {<< >>, <<" ">>, <<"a">>},
          done : {FALSE}]

Return(out) ==
    [x \in DOMAIN view \cup {"out"} |->
        IF x = "out" THEN out ELSE IF x = "done" THEN TRUE ELSE view[x]]

InitView ==
    /\ rev = "v3" /\ deep = FALSE /\ apiKey = TRUE
    /\ ai = FALSE /\ mounted = TRUE /\ user = 0
    /\ appState = "SUCCESS"
    /\ analysisData = NoData /\ errorMsg = NoMsg
    /\ fileName = 0 /\ duration = 0 /\ audioUrl = NoUrl
    /\ recentUploads = << >> /\ toastMessage = NoMsg /\ toastTimers = 0
    /\ analysisCache = << >> /\ db = <<OldRow>>
    /\ fetching = 0
    /\ proc = [s \in Seqs |-> NoProc]
    /\ started = 0 /\ origin = << >>
    /\ revoked = [h \in Handles |-> 0]
    /\ calls = [k \in Keys |-> 0]
    /\ requests = 0 /\ okFp = {} /\ lateCalls = 0
    /\ upSinceIdle = FALSE /\ last = NoLast
    /\ progress = 0 /\ interval = "none" /\ effectDue = FALSE
    /\ view \in Calls

ParseTimestamp ==
    /\ view.fn = "parseTimestamp" /\ ~view.done
    /\ view' = Return(parseTimestamp(view.timeStr))
    /\ UNCHANGED app

ActiveSegment ==
    /\ view.fn = "activeSegment" /\ ~view.done
    /\ view' = Return(activeSegment(view.transcript, view.currentTime))
    /\ UNCHANGED app

FilteredTranscript ==
    /\ view.fn = "filteredTranscript" /\ ~view.done
    /\ view' = Return(filteredTranscript(view.transcript, view.searchQuery))
    /\ UNCHANGED app

RenderHighlightedText ==
    /\ view.fn = "renderHighlightedText" /\ ~view.done
    /\ view' = Return(renderHighlightedText(view.text, view.highlight))
    /\ UNCHANGED app

\* the map over filteredTranscript in the render of TranscriptView
RenderSegments ==
    /\ view.fn = "render" /\ ~view.done
    /\ view' = Return(ActiveMarks(view.transcript, view.currentTime,
                                  view.searchQuery))
    /\ UNCHANGED app

NextView ==
    \/ ParseTimestamp
    \/ ActiveSegment
    \/ FilteredTranscript
    \/ RenderHighlightedText
    \/ RenderSegments

SpecView == InitView /\ [][NextView]_vars

(* ----------------------------- progress bar --------------------------- *)
\* v3. The effect depends on appState alone, so the controller is taken as
\* the setAppState calls of App.tsx, in every order Spec takes them: the
\* handlers that set UPLOADING are offered in IDLE and ERROR only, and
\* sequences overlap, so every other change occurs. progress is counted in
\* tenths of a percent (35 is 350, the step 0.4 is 4); the rounding of
\* binary floating point is left out.
AppStates == {"IDLE", "UPLOADING", "ANALYZING", "SUCCESS", "ERROR"}

Max(a, b) == IF a >= b THEN a ELSE b

\* all but appState and the bar
still == <<rev, deep, apiKey, ai, mounted, user, analysisData, errorMsg,
           fileName, duration, audioUrl, recentUploads, toastMessage,
           toastTimers, analysisCache, db, fetching, proc, started, origin,
           revoked, calls, requests, okFp, lateCalls, upSinceIdle, last,
           view>>

InitProgress ==
    /\ rev = "v3" /\ deep = FALSE /\ apiKey = TRUE
    /\ ai = FALSE /\ mounted = TRUE /\ user = 1
    /\ appState = "IDLE"
    /\ analysisData = NoData /\ errorMsg = NoMsg
    /\ fileName = 0 /\ duration = 0 /\ audioUrl = NoUrl
    /\ recentUploads = << >> /\ toastMessage = NoMsg /\ toastTimers = 0
    /\ analysisCache = << >> /\ db = <<OldRow>>
    /\ fetching = 0
    /\ proc = [s \in Seqs |-> NoProc]
    /\ started = 0 /\ origin = << >>
    /\ revoked = [h \in Handles |-> 0]
    /\ calls = [k \in Keys |-> 0]
    /\ requests = 0 /\ okFp = {} /\ lateCalls = 0
    /\ upSinceIdle = FALSE /\ last = NoLast
    \* the effect of the mount has run: setProgress(0)
    /\ progress = 0 /\ interval = "none" /\ effectDue = FALSE
    /\ view = NoView

\* a handler calls setAppState(next) and the component renders again; the
\* effects of a render run before the next one. setAppState(IDLE) is that of
\* handleReset, which also calls setProgress(0).
SetAppState(next) ==
    /\ ~effectDue
    /\ next # appState
    /\ next = "UPLOADING" => appState \in {"IDLE", "ERROR"}
    /\ appState' = next
    /\ effectDue' = TRUE
    /\ progress' = IF next = "IDLE" THEN 0 ELSE progress
    /\ UNCHANGED <<interval, still>>

\* the effect on [appState]: the cleanup of the last run clears its interval
ProgressEffect ==
    /\ effectDue
    /\ effectDue' = FALSE
    /\ progress' = CASE appState = "UPLOADING" -> 0
                     [] appState = "ANALYZING" -> Max(progress, 350)
                     [] appState = "SUCCESS" -> 1000
                     [] OTHER -> 0
    /\ interval' = CASE appState = "UPLOADING" -> "upload"
                     [] appState = "ANALYZING" -> "analyze"
                     [] OTHER -> "none"
    /\ UNCHANGED <<appState, still>>

\* the callback of the running interval: every 100 ms while uploading,
\* every 150 ms while analyzing
Tick ==
    /\ interval # "none"
    /\ progress' = IF interval = "upload"
                   THEN (IF progress >= 350 THEN 350 ELSE progress + 20)
                   ELSE (IF progress >= 900 THEN 900 ELSE progress + 4)
    /\ UNCHANGED <<appState, interval, effectDue, still>>

NextProgress ==
    \/ \E next \in AppStates : SetAppState(next)
    \/ ProgressEffect
    \/ Tick

SpecProgress == InitProgress /\ [][NextProgress]_vars

(* ------------------------------ properties ---------------------------- *)
\* C1: once a file selection has brought a fingerprint to SUCCESS, no later
\* selection of that fingerprint invokes analyzeSalesCall: the calls made
\* for a fingerprint stop at the one that succeeded.
C1_NoCallAfterSuccess == lateCalls = 0

\* a second selection of a fingerprint was served by the cache
C1_ServedFromCache ==
    /\ appState = "SUCCESS"
    /\ last.cause = "cacheHit"
    /\ \A k \in okFp : calls[k] = 1

\* C2: whenever the controller is in ANALYZING, SUCCESS or ERROR, it was set
\* to UPLOADING since it was last set to IDLE.
C2_UploadingSinceIdle ==
    appState \in {"ANALYZING", "SUCCESS", "ERROR"} => upSinceIdle

\* a selection went through UPLOADING and its decoding failed
C2_ErrorAfterUploading ==
    appState = "ERROR" /\ upSinceIdle /\ last.cause = "decode"

\* C3: no handle is released twice, and once no sequence is in flight and
\* the controller is in IDLE or ERROR, every handle that handleFileSelect
\* created has been released exactly once.
C3_ReleasedExactlyOnce ==
    /\ \A h \in 1..created : revoked[h] <= 1
    /\ (InFlight = {} /\ appState \in {"IDLE", "ERROR"})
         => \A h \in 1..created : origin[h] = "file" => revoked[h] = 1

\* a selection succeeded, was reset, and its handle was released once
C3_ReleasedOnReset ==
    /\ appState = "IDLE"
    /\ last.kind = "select" /\ last.outcome = "success"
    /\ created = 1 /\ origin[1] = "file" /\ revoked[1] = 1

\* C4: at most one handler invocation is in flight, and at most one of them
\* awaits the provider.
C4_OneSequenceInFlight ==
    /\ Cardinality(InFlight) <= 1
    /\ Cardinality({s \in Seqs : proc[s].pc = "analyzing"}) <= 1

\* one sequence awaits the provider while the upload trigger is disabled
C4_OneRequestOutstanding ==
    /\ appState = "ANALYZING"
    /\ Cardinality(InFlight) = 1
    /\ \E s \in Seqs : proc[s].pc = "analyzing"

\* C5 as stated: a file selection whose encoding, duration extraction and
\* remote analysis succeeded (the provider's reply parsed to an object) ends
\* in SUCCESS whatever the storage upload and the insert returned.
C5_PersistenceNeverErrors ==
    (last.kind = "select" /\ last.detail \in {"object", "partial"})
        => last.outcome = "success"

\* C5 amended: the step in which the storage upload returns, with an error
\* or without, leaves the state and the error message as they are and goes
\* on to the remote analysis (it ends in ERROR only when getAIClient
\* throws); the step in which the insert returns ends the sequence in
\* SUCCESS when the row was stored and in ERROR, with the database's
\* message, when it was not.
C5_OnlyInsertErrorAborts ==
    [][\A s \in Seqs :
        /\ (proc[s].pc = "storing" /\ proc'[s].pc # "storing")
             => \/ /\ proc'[s].pc = "analyzing"
                   /\ appState' = appState
                   /\ errorMsg' = errorMsg
                \/ /\ ClientThrows
                   /\ last'.cause = "config"
        /\ (proc[s].pc = "inserting" /\ proc'[s].pc # "inserting")
             => IF db' # db
                THEN appState' = "SUCCESS" /\ last'.outcome = "success"
                ELSE /\ appState' = "ERROR"
                     /\ errorMsg' = ErrDb
                     /\ last'.cause = "insert"]_vars

\* the only sequence so far had its storage upload fail and ended in SUCCESS
C5_SuccessAfterUploadError ==
    /\ started = 1
    /\ toastMessage \in {ToastBucket, ToastStorage}
    /\ appState = "SUCCESS"
    /\ last.kind = "select" /\ last.outcome = "success"

\* C6: the session cache, the stored rows and (where it is kept in memory)
\* the recent list change only in the step that ends a file selection in
\* SUCCESS, so a selection that ends in ERROR leaves them as they were; and
\* the cache holds only fingerprints that a selection brought to SUCCESS.
C6_ErrorStoresNothing ==
    [][/\ (\/ analysisCache' # analysisCache
           \/ db' # db
           \/ (rev # "v3" /\ recentUploads' # recentUploads))
          => \E s \in Seqs : /\ proc[s].kind = "select"
                             /\ proc'[s].pc = "none"
                             /\ appState' = "SUCCESS"
                             /\ last'.outcome = "success"
       /\ DOMAIN analysisCache' \subseteq okFp']_vars

\* a selection ended in ERROR and the same fingerprint, selected again,
\* misses the cache
C6_MissAfterError ==
    /\ rev \in {"v1", "v2"}
    /\ last.kind = "select" /\ last.outcome = "error"
    /\ recentUploads = << >>
    /\ \E s \in Seqs : /\ proc[s].pc = "processing"
                       /\ CacheKey(proc[s].file) = last.key

\* C7: a step of the signed-in user from SUCCESS to IDLE (handleReset)
\* revokes the bound URL once, unbinds it, clears the result, the file name
\* and the duration, and leaves the cache, the recent list and the stored
\* rows as they were.
C7_ResetFrame ==
    [][(appState = "SUCCESS" /\ appState' = "IDLE" /\ user' = user)
        => /\ audioUrl' = NoUrl
           /\ \A h \in 1..created :
                revoked'[h] = IF audioUrl = Blob(h) THEN revoked[h] + 1
                              ELSE revoked[h]
           /\ analysisData' = NoData
           /\ fileName' = 0
           /\ duration' = 0
           /\ analysisCache' = analysisCache
           /\ recentUploads' = recentUploads
           /\ db' = db]_vars

\* after a reset from SUCCESS: idle, nothing bound, the handle released, the
\* cache and the recent list still filled
C7_AfterReset ==
    /\ rev = "v2"
    /\ appState = "IDLE" /\ last.outcome = "success"
    /\ audioUrl = NoUrl /\ analysisData = NoData
    /\ created >= 1 /\ revoked[created] = 1
    /\ analysisCache # << >> /\ recentUploads # << >>

\* the sentence the error mapping of part_001 gives each failure subkind
SentenceOf(kind) ==
    CASE kind = "unsupportedMedia" -> MsgFormat
      [] kind = "tooLarge" -> MsgTooLarge
      [] kind = "rateLimited" -> MsgRate
      [] kind = "contentFiltered" -> MsgBlocked
      [] OTHER -> MsgAIFailed

\* C8: while the controller shows the ERROR of a remote-analysis failure,
\* the message is the sentence of the failure's subkind, one of five
\* pairwise distinct sentences.
C8_MessageBySubkind ==
    /\ Cardinality({SentenceOf(e.kind) : e \in ProviderErrors}) = 5
    /\ (appState = "ERROR" /\ last.cause = "provider")
         => errorMsg = SentenceOf(last.detail)

\* a rate-limit rejection is shown with the rate-limit sentence
C8_RateLimitSentence ==
    /\ appState = "ERROR"
    /\ last.cause = "provider" /\ last.detail = "rateLimited"
    /\ errorMsg = MsgRate

C10_NoRequestWithoutKey ==
    ~apiKey => /\ requests = 0
               /\ last.cause \notin {"provider", "malformed", "analysed",
                                     "nullResult", "insert"}

\* without a key the lazy client fails the call before any request
C10_MissingKeyShown ==
    /\ ~apiKey /\ requests = 0
    /\ appState = "ERROR" /\ errorMsg = MsgMissingKey
    /\ last.cause = "config"

\* C11: a request goes to the provider only in the step in which a file
\* selection's sequence passes from Promise.all (or the storage upload) to
\* awaiting the provider, and it is one request; a sequence that awaits the
\* provider or the insert never goes back to an earlier position, so that
\* no failure makes it send again.
C11_OneRequestPerSelection ==
    [][/\ requests' # requests
          => /\ requests' = requests + 1
             /\ \E s \in Seqs : /\ proc[s].kind = "select"
                                /\ proc[s].pc \in {"encoded", "measured", "storing"}
                                /\ proc'[s].pc = "analyzing"
       /\ \A s \in Seqs :
            proc[s].pc \in {"analyzing", "inserting"}
               => proc'[s].pc \in {"analyzing", "inserting", "none"}]_vars

\* the provider rejected the only request and the sequence ended in ERROR
C11_FailedWithoutRetry ==
    /\ appState = "ERROR" /\ InFlight = {}
    /\ last.cause = "provider"
    /\ started = 1 /\ requests = 1


\* A part of a timecode is numeric when it is a non-empty string of digits;
\* its value is read from its last digit back.
NumericPart(part) == part # << >> /\ \A i \in DOMAIN part : part[i] \in Digits
RECURSIVE ValueOf(_)
ValueOf(part) ==
    IF part = << >> THEN 0
    ELSE DigitValue(part[Len(part)]) + 10 * ValueOf(SubSeq(part, 1, Len(part) - 1))
Colons(str) == {i \in DOMAIN str : str[i] = ":"}
\* the part of str from after position a to before position b
Between(str, a, b) == SubSeq(str, a + 1, b - 1)
\* a well-formed timecode: two or three parts, every one numeric
WellFormed(str) ==
    LET cs == Colons(str) \cup {0, Len(str) + 1} IN
    /\ Cardinality(Colons(str)) \in {1, 2}
    /\ \A a \in cs, b \in cs :
         (a < b /\ ~\E c \in cs : a < c /\ c < b) => NumericPart(Between(str, a, b))
Parsed == view.fn = "parseTimestamp" /\ view.done

\* C12: for a timecode whose parts are all numeric, parseTimestamp of m:s
\* is 60*m + s and of h:m:s is 3600*h + 60*m + s.
C12_MinutesAndHours ==
    (Parsed /\ WellFormed(view.timeStr)) =>
        LET str == view.timeStr
            n == Len(str) + 1
            cs == Colons(str)
            c1 == CHOOSE c \in cs : \A d \in cs : c <= d
            c2 == CHOOSE c \in cs : \A d \in cs : d <= c
        IN IF Cardinality(cs) = 1
           THEN view.out = Num(60 * ValueOf(Between(str, 0, c1))
                               + ValueOf(Between(str, c1, n)))
           ELSE view.out = Num(3600 * ValueOf(Between(str, 0, c1))
                               + 60 * ValueOf(Between(str, c1, c2))
                               + ValueOf(Between(str, c2, n)))
\* "5:03:5", or its first five characters, has been parsed
C12_HoursParsed ==
    /\ Parsed
    /\ Cardinality(Colons(view.timeStr)) = 2
    /\ WellFormed(view.timeStr)
    /\ view.out.v >= 3600 * 5 + 60 * 3

\* C13: for a string that is not a well-formed timecode (empty, one part,
\* more than three parts, or two or three parts of which one is not
\* numeric) parseTimestamp returns 0.
C13_MalformedIsZero ==
    (Parsed /\ ~WellFormed(view.timeStr)) => view.out = Num(0)
\* one part that is no number is 0
C13_OnePartIsZero ==
    /\ Parsed
    /\ view.timeStr = <<"a", "a", "a">>
    /\ view.out = Num(0)

\* The segments of a transcript whose parsed start is at most t.
Qualifying(transcript, t) ==
    {i \in DOMAIN transcript : AtMost(parseTimestamp(transcript[i].timestamp), t)}
Selected == view.fn = "activeSegment" /\ view.done

\* C14: for every transcript, sorted or not, and playback time t,
\* activeSegment returns the segment of highest index whose parsed start is
\* at most t, and none when no segment qualifies or the transcript is empty.
C14_HighestQualifying ==
    Selected =>
        LET q == Qualifying(view.transcript, view.currentTime) IN
        IF q = {} THEN view.out = 0
        ELSE view.out \in q /\ \A i \in q : i <= view.out
\* two segments out of order both qualify, and the second is returned
C14_LaterOfTwo ==
    /\ Selected
    /\ Len(view.transcript) = 2
    /\ view.transcript[1].timestamp = Stamp("0", "5")
    /\ view.transcript[2].timestamp = Stamp("0", "3")
    /\ view.currentTime = 5
    /\ view.out = 2

Blank(str) == \A i \in DOMAIN str : str[i] = " "
Filtered == view.fn = "filteredTranscript" /\ view.done

\* C15: a search with an empty or whitespace-only query returns the input
\* sequence: the same segments in the same order.
C15_BlankQueryReturnsAll ==
    (Filtered /\ Blank(view.searchQuery)) => view.out = view.transcript
\* two blanks were searched for in two segments, one with a blank in it
C15_BlanksSearched ==
    /\ Filtered
    /\ view.searchQuery = <<" ", " ">>
    /\ Len(view.transcript) = 2
    /\ view.transcript[1].text = <<"B">>
    /\ view.transcript[2].text = <<"b", " ", "A">>
    /\ view.out = view.transcript

\* Two characters are the same letter whatever their case.
SameLetter(c, d) == c = d \/ {c, d} \in {{"a", "A"}, {"b", "B"}}
ContainsNoCase(str, q) ==
    \E i \in 1..(Len(str) + 1) :
        \A k \in 1..Len(q) :
            i + k - 1 <= Len(str) /\ SameLetter(str[i + k - 1], q[k])
\* the positions of the segments that contain q in speaker or text
Hits(transcript, q) ==
    {i \in DOMAIN transcript : \/ ContainsNoCase(transcript[i].speaker, q)
                               \/ ContainsNoCase(transcript[i].text, q)}

\* C16: for a non-blank query the search returns exactly the segments whose
\* speaker or text contains the query as a substring whatever the case of
\* the letters, in their original order.
C16_ExactlyTheHits ==
    (Filtered /\ ~Blank(view.searchQuery)) =>
        LET hits == Hits(view.transcript, view.searchQuery) IN
        /\ Len(view.out) = Cardinality(hits)
        /\ \A j \in DOMAIN view.out :
             \E i \in hits : /\ Cardinality({k \in hits : k <= i}) = j
                             /\ view.out[j] = view.transcript[i]
\* "Ab" was searched for and found in the second segment's "ab" only
C16_FoundInOtherCase ==
    /\ Filtered
    /\ view.searchQuery = <<"A", "b">>
    /\ Len(view.transcript) = 2
    /\ view.transcript[1].text = <<"B">>
    /\ view.transcript[2].text = <<"a", "b">>
    /\ view.out = <<view.transcript[2]>>

Rendered == view.fn = "renderHighlightedText" /\ view.done
RECURSIVE Concat(_)
Concat(parts) ==
    IF parts = << >> THEN << >> ELSE Head(parts).str \o Concat(Tail(parts))
\* the position in the text at which part j begins
StartOf(parts, j) == 1 + Len(Concat(SubSeq(parts, 1, j - 1)))
\* q occurs in text at position i, letter for letter whatever the case
OccursAt(text, q, i) ==
    /\ i + Len(q) - 1 <= Len(text)
    /\ \A k \in 1..Len(q) : SameLetter(text[i + k - 1], q[k])
Occurrences(text, q) == {i \in DOMAIN text : OccursAt(text, q, i)}
MarkedParts(parts) == {j \in DOMAIN parts : parts[j].marked}
\* every marked part is an occurrence of q in the text
OnlyOccurrencesMarked(text, q, parts) ==
    \A j \in MarkedParts(parts) :
        /\ Len(parts[j].str) = Len(q)
        /\ OccursAt(text, q, StartOf(parts, j))

\* C17: for every text and non-blank query, also one with '.' or '+',
\* highlighting does not fail, marks every occurrence of the query as a
\* literal substring whatever the case, marks nothing else, and the parts
\* put together are the text.
C17_EveryOccurrenceMarked ==
    (Rendered /\ ~Blank(view.highlight)) =>
        /\ ~view.out.thrown
        /\ Concat(view.out.parts) = view.text
        /\ OnlyOccurrencesMarked(view.text, view.highlight, view.out.parts)
        /\ \A i \in Occurrences(view.text, view.highlight) :
             \A p \in i..(i + Len(view.highlight) - 1) :
                \E j \in MarkedParts(view.out.parts) :
                   /\ StartOf(view.out.parts, j) <= p
                   /\ p < StartOf(view.out.parts, j) + Len(view.highlight)
\* C17 as the code has it: the occurrences are marked from the left, and
\* one that begins inside a marked occurrence is not marked itself.
C17_OccurrencesMarkedFromLeft ==
    (Rendered /\ ~Blank(view.highlight)) =>
        /\ ~view.out.thrown
        /\ Concat(view.out.parts) = view.text
        /\ OnlyOccurrencesMarked(view.text, view.highlight, view.out.parts)
        /\ \A i \in Occurrences(view.text, view.highlight) :
             \E j \in MarkedParts(view.out.parts) :
                /\ StartOf(view.out.parts, j) <= i
                /\ i < StartOf(view.out.parts, j) + Len(view.highlight)
\* "a+" was marked in "A+a", and the "a" after it was not
C17_PlusMarkedLiterally ==
    /\ Rendered
    /\ view.highlight = <<"a", "+">>
    /\ view.text = <<"A", "+", "a">>
    /\ view.out.parts = <<[str |-> << >>, marked |-> FALSE],
                          [str |-> <<"A", "+">>, marked |-> TRUE],
                          [str |-> <<"a">>, marked |-> FALSE]>>

\* The fingerprint of an entry of the recent list: its cache key in v2; in
\* v3 the file its row was inserted for (the row of the earlier session is
\* of a file of its own).
FingerprintOf(entry) ==
    IF rev = "v2" THEN entry.cacheKey
    ELSE IF entry.id = 0 THEN <<"earlier session">>
    ELSE <<CACHE_VERSION, entry.file_name, 1, 1>>

\* C18: the recent list never holds two entries with the same fingerprint.
C18_NoDuplicateEntries ==
    \A i \in DOMAIN recentUploads, j \in DOMAIN recentUploads :
        i # j => FingerprintOf(recentUploads[i]) # FingerprintOf(recentUploads[j])
\* v2: a cache hit on a listed file left the list with its one entry
C18_HitLeftListAlone ==
    /\ rev = "v2"
    /\ last.cause = "cacheHit"
    /\ Len(recentUploads) = 1
    /\ recentUploads[1].cacheKey = last.key

\* Sequence s takes the click on a recent entry; it ends after its delay.
RecentClicked(s) == proc[s].pc = "none" /\ proc'[s].pc = "recentDelay"
RecentEnded(s) == proc[s].pc = "recentDelay" /\ proc'[s].pc = "none"
\* what the sequence restores is an entry of the cache (v2) or a row of
\* table 'calls' (v3)
StoredSession(p) ==
    IF rev = "v2"
    THEN \E k \in DOMAIN analysisCache : analysisCache[k] = p.cached
    ELSE \E n \in DOMAIN db : db[n] = p.item

\* C19: selecting a prior session passes through Uploading and then enters
\* Success with that session's stored result and duration and a handle for
\* its audio bound, and issues no remote-analysis call.
C19_SuccessWithHandle ==
    [][\A s \in Seqs :
         /\ RecentClicked(s) => appState' = "UPLOADING" /\ requests' = requests
         /\ RecentEnded(s) => /\ appState' = "SUCCESS"
                              /\ audioUrl' # NoUrl
                              /\ duration' # NA
                              /\ requests' = requests]_vars
\* C19 as the code has it: no remote call; Uploading, then Success with the
\* stored result and duration, where a session stored without a duration
\* shows 'N/A' and one stored without audio binds no handle (v3); in v2 the
\* handle is newly created, and when that fails the controller is Idle with
\* the could-not-restore message and nothing is bound.
C19_RestoredOrIdle ==
    [][\A s \in Seqs :
         /\ RecentClicked(s) => /\ appState' = "UPLOADING"
                                /\ requests' = requests /\ calls' = calls
         /\ RecentEnded(s) =>
              /\ requests' = requests /\ calls' = calls
              /\ StoredSession(proc[s])
              /\ IF rev = "v2"
                 THEN \/ /\ appState' = "SUCCESS"
                         /\ analysisData' = proc[s].cached.result
                         /\ duration' = proc[s].cached.duration
                         /\ audioUrl' = Blob(created + 1)
                         /\ origin' = Append(origin, "recent")
                      \/ /\ appState' = "IDLE"
                         /\ errorMsg' = MsgRestore
                         /\ UNCHANGED <<analysisData, duration, audioUrl, origin>>
                 ELSE /\ appState' = "SUCCESS"
                      /\ analysisData' = proc[s].item.analysis_result
                      /\ duration' = (IF proc[s].item.duration = 0
                                      THEN NA ELSE proc[s].item.duration)
                      /\ audioUrl' = proc[s].item.audio_url]_vars
\* a session analysed before was restored with a handle, on one request
C19_RestoredAfterReset ==
    /\ last.kind = "recent" /\ last.outcome = "success"
    /\ appState = "SUCCESS"
    /\ audioUrl # NoUrl
    /\ analysisData # NoData
    /\ requests = 1

\* The positions of a selection's sequence at Promise.all, and those it has
\* once Promise.all resolved.
AtJoin == {"processing", "encoded", "measured"}
PastJoin == {"storing", "analyzing"}

\* C20: on a cache miss the encoding and the duration extraction are both
\* pending from the selection on; Analyzing is entered, and a sequence goes
\* on towards the request, only in the step in which the second of the two
\* resolves; a rejection of either, also while the other is pending, ends
\* the sequence in Error in that step with no request sent.
C20_JoinBeforeAnalyzing ==
    [][/\ \A s \in Seqs :
            /\ (proc[s].pc = "none" /\ proc'[s].pc \in AtJoin)
                 => proc'[s].pc = "processing"
            /\ proc[s].pc = "processing"
                 => /\ proc'[s].pc \in AtJoin \cup {"none"}
                    /\ proc'[s].pc \in {"encoded", "measured"}
                         => appState' = appState /\ requests' = requests
            /\ (proc[s].pc \in AtJoin /\ proc'[s].pc = "none")
                 => /\ appState' = "ERROR"
                    /\ last'.outcome = "error"
                    /\ last'.cause \in {"encode", "decode"}
                    /\ requests' = requests
            /\ (proc[s].pc \notin PastJoin /\ proc'[s].pc \in PastJoin)
                 => /\ proc[s].pc \in {"encoded", "measured"}
                    /\ appState' = "ANALYZING"
       /\ (appState # "ANALYZING" /\ appState' = "ANALYZING")
            => \E s \in Seqs : /\ proc[s].pc \in {"encoded", "measured"}
                               /\ proc'[s].pc \in PastJoin]_vars
\* the duration extraction failed, the first selection ended in Error and
\* nothing was sent
C20_FailedAtJoin ==
    /\ last.kind = "select" /\ last.cause = "decode"
    /\ appState = "ERROR"
    /\ started = 1 /\ requests = 0
    /\ InFlight = {}

\* The only sequence so far was a file selection whose storage upload
\* failed (the warning is shown) and which ended in SUCCESS, still shown.
SucceededWithoutUpload ==
    /\ rev = "v3"
    /\ started = 1
    /\ toastMessage \in {ToastBucket, ToastStorage}
    /\ last.kind = "select" /\ last.outcome = "success"
    /\ appState = "SUCCESS"

\* C21: when the storage upload fails and the analysis succeeds, SUCCESS is
\* reached with the player bound to the local handle created at the file
\* selection, not to a remote URL, and a warning is shown.
C21_LocalHandleKept ==
    SucceededWithoutUpload => audioUrl = Blob(1)
\* SUCCESS was reached with the "Using local audio link" warning shown
C21_WarnedAndSucceeded ==
    /\ SucceededWithoutUpload
    /\ toastMessage = ToastStorage
    /\ analysisData # NoData
    /\ Len(db) = 2

\* C22: in every step in which the bound handle is replaced by another URL
\* or unbound, the handle that was bound has been released when the step
\* is over.
C22_ReplacedHandleReleased ==
    [][(audioUrl.k = "blob" /\ audioUrl' # audioUrl)
          => revoked'[audioUrl.id] >= 1]_vars
\* v2: the catch block unbound the handle of the failed selection and
\* released it
C22_ReleasedInCatch ==
    /\ rev = "v2"
    /\ appState = "ERROR" /\ last.outcome = "error"
    /\ audioUrl = NoUrl
    /\ created = 1 /\ revoked[1] = 1

\* a file selection in flight ends
SequencesEnd ==
    \A s \in Seqs :
        (proc[s].kind = "select" /\ proc[s].pc # "none") ~> (proc[s].pc = "none")
\* the controller is not in UPLOADING or ANALYZING for ever
NotBusyForEver == []<>(appState \notin {"UPLOADING", "ANALYZING"})
\* from ANALYZING the controller goes nowhere but to SUCCESS or ERROR
AnalyzingLeftOnlyByItsEnd ==
    [][appState = "ANALYZING"
          => appState' \in {"ANALYZING", "SUCCESS", "ERROR"}]_vars

\* C23: when every external call settles, every file selection that enters
\* UPLOADING ends (in the step that sets SUCCESS or ERROR), the controller
\* never stays in UPLOADING or ANALYZING for ever, and once ANALYZING has
\* begun nothing takes the controller out of it but the completion or the
\* failure of the analysis.
C23_RunsToCompletion ==
    /\ SequencesEnd
    /\ NotBusyForEver
    /\ AnalyzingLeftOnlyByItsEnd
\* one selection went through ANALYZING and ended in SUCCESS
C23_AnalysisCompleted ==
    /\ started = 1 /\ requests = 1
    /\ last.kind = "select" /\ last.outcome = "success" /\ last.cause = "analysed"
    /\ appState = "SUCCESS"
    /\ InFlight = {}

\* The first sequence was a file selection that failed in fileToBase64 or
\* getAudioDuration, and its ERROR is on display.
FailedLocally ==
    /\ started = 1
    /\ last.kind = "select" /\ last.cause \in {"encode", "decode"}
    /\ appState = "ERROR"

\* C24: after a file selection failed locally a message is shown and
\* nothing of the attempt stays bound: no result, no file name, no duration
\* and no handle.
C24_NothingRetained ==
    FailedLocally =>
        /\ errorMsg # NoMsg
        /\ analysisData = NoData
        /\ fileName = 0
        /\ duration = 0
        /\ audioUrl = NoUrl
\* v2: the processing message is shown, the handle is released and unbound
C24_MessageAndNoHandle ==
    /\ FailedLocally
    /\ rev = "v2"
    /\ errorMsg = MsgProcess
    /\ audioUrl = NoUrl /\ revoked[1] = 1
    /\ analysisData = NoData /\ duration = 0

\* The result, the file name and the duration on display are those of one
\* session: of one analysed file, or of the row of the earlier session.
OneSession ==
    \/ \E f \in Files : /\ analysisData.of = CacheKey(f)
                        /\ fileName = f.name
                        /\ duration = DurationOf(f)
    \/ /\ analysisData = OldRow.analysis_result
       /\ fileName = OldRow.file_name
       /\ duration = NA

\* C25: whenever the controller is in SUCCESS a result is bound, and the
\* bound result, file name and duration come from one and the same session.
C25_SuccessShowsOneSession ==
    appState = "SUCCESS" => analysisData # NoData /\ OneSession
\* a session was restored from the recent list after another selection
C25_RestoredSessionShown ==
    /\ appState = "SUCCESS"
    /\ last.kind = "recent" /\ last.outcome = "success"
    /\ analysisData # NoData /\ OneSession
    /\ started = 3

\* C26: while nobody is signed in, the controller is in IDLE, no result is
\* bound and the history is empty: what a sequence in flight at the
\* sign-out does when it completes changes none of this.
C26_SignedOutStaysIdle ==
    user = 0 => /\ appState = "IDLE"
                /\ analysisData = NoData
                /\ recentUploads = << >>
\* signed out with a file selection in flight, the controller reset
C26_SignedOutInFlight ==
    /\ rev = "v3" /\ user = 0
    /\ started = 2
    /\ \E s \in Seqs : proc[s].kind = "select" /\ proc[s].pc = "analyzing"
    /\ appState = "IDLE" /\ analysisData = NoData /\ recentUploads = << >>

\* C27: an error message is set only while the controller is in ERROR, the
\* one state whose view displays it.
C27_MessageOnlyInError ==
    errorMsg # NoMsg => appState = "ERROR"
\* v2: the too-large sentence is set and the controller is in ERROR
C27_MessageShownInError ==
    /\ rev = "v2"
    /\ appState = "ERROR"
    /\ errorMsg = MsgTooLarge
    /\ InFlight = {}

Drawn == view.fn = "render" /\ view.done

\* C28: when the transcript is shown unfiltered (the query is empty or
\* blank) and the playback time is at or after some segment's start,
\* exactly one segment is marked as active: the one activeSegment returns.
C28_OneActiveSegment ==
    (/\ Drawn
     /\ Blank(view.searchQuery)
     /\ Qualifying(view.transcript, view.currentTime) # {})
        => view.out = {activeSegment(view.transcript, view.currentTime)}
\* with the empty query the second of two segments is the one marked
C28_SecondMarked ==
    /\ Drawn
    /\ view.searchQuery = << >>
    /\ Len(view.transcript) = 2
    /\ view.transcript[1] = view.transcript[2]
    /\ view.out = {2}

\* a toast of showToast, which starts a timer
Copied == toastMessage \in {ToastReport, ToastTranscript}
CopiedToastCleared == Copied ~> toastMessage = NoMsg

\* C29: under the event loop's fairness, every toast message that is shown
\* is eventually cleared with no further user action, the storage-failure
\* warnings of a file selection included.
C29_EveryToastCleared == toastMessage # NoMsg ~> toastMessage = NoMsg
\* a storage warning is on screen and no timer is pending
C29_WarningWithoutTimer ==
    /\ toastMessage \in {ToastBucket, ToastStorage}
    /\ toastTimers = 0
    /\ \A s \in Seqs : proc[s] = NoProc
    /\ fetching = 0

\* the effect of the current appState has run
Settled == ~effectDue
SamePhase == appState' = appState /\ Settled /\ Settled'

\* C30: progress never exceeds 35 in UPLOADING nor 90 in ANALYZING, never
\* decreases within one phase, is 100 in SUCCESS and 0 in IDLE and ERROR,
\* however many times the interval has ticked.
C30_ProgressCapped ==
    /\ [](Settled =>
            /\ appState = "UPLOADING" => progress <= 350
            /\ appState = "ANALYZING" => progress <= 900
            /\ appState = "SUCCESS" => progress = 1000
            /\ appState \in {"IDLE", "ERROR"} => progress = 0)
    /\ [][SamePhase => progress' >= progress]_vars
\* the eighteenth tick of an upload: 34 + 2
C30_UploadAt36 ==
    /\ appState = "UPLOADING" /\ Settled
    /\ interval = "upload"
    /\ progress = 360
=============================================================================
